---------------------------- MODULE Spec2Model ----------------------------
(***************************************************************************)
(* Model of src/downsample/prepare_data.py (the data loader) and           *)
(* src/downsample/RF_train_and_evaluate.py (the trainer/evaluator).        *)
(*                                                                         *)
(* A feature array is a sequence of rows, each row a sequence of           *)
(* FeatureDim numbers.  A manifest (a pandas DataFrame read from a CSV) is *)
(* a record [columns, rows], each row a function from the column names to  *)
(* the cell values.  A path is the sequence of its components.  The        *)
(* feature directory is a function from file names to arrays (or NoFile).  *)
(***************************************************************************)
EXTENDS Integers, Sequences, FiniteSets, TLC

VARIABLES
    fs,                    \* the feature directory: name of each existing file -> array
    csv,                   \* the manifests on disk: manifest path -> DataFrame
    call,                  \* the library call last made by the client: [fn, ...arguments]
    ret,                   \* what that call returned (or the exception it raised)
    held,                  \* the scaler object the client holds (None before any fit)
    pc,                    \* main's position
    target_length,         \* main's locals, named as in the source
    X_train, y_train, sample_weights_train, scaler,
    X_eval, y_eval,
    class_weight_dict,
    baseline_model,
    y_scores,              \* predict_proba(X_eval)[:, 1] of the current evaluation
    y_eval_pred,
    disk,                  \* the output files written so far, in order
    done                   \* the steps main has completed, in order

vars == << fs, csv, call, ret, held, pc, target_length, X_train, y_train,
           sample_weights_train, scaler, X_eval, y_eval, class_weight_dict,
           baseline_model, y_scores, y_eval_pred, disk, done >>

(***************************************************************************)
(* Bounds of the model.                                                    *)
(***************************************************************************)
MaxRows == 3        \* rows of a manifest
MaxLen == 2         \* rows (sequence length) of a stored feature array
MaxScaleRows == 2   \* rows of a manifest handed to the scaling wrappers
MaxMainRows == 2    \* rows of a manifest read by main
MaxEvalRows == 3    \* samples handed to evaluate_model_with_threshold
FeatureDim == 2     \* columns of every feature array

\* target_length=None (an integer that is no length)
NoLength == -1
\* scaler=None, and a fitted StandardScaler
NoScaler == [none |-> TRUE, mean_ |-> << >>, var_ |-> << >>]
Scaler(mean, var) == [none |-> FALSE, mean_ |-> mean, var_ |-> var]

Labels == {0, 1}
FileNames == {"a.npy", "b.npy"}
\* manifest cells naming feature files: with and without a directory part
Paths == { <<"a.npy">>, <<"feats", "b.npy">> }
TargetLengths == 0 .. (MaxLen + 1)
\* probabilities and thresholds, in tenths
Scores == {0, 1, 2, 5, 6, 10}
Thresholds == {0, 1, 5, 10}
\* threshold=0.1, the default of evaluate_model_with_threshold
DefaultThreshold == 1
\* baseline_threshold = 0.5
baseline_threshold == 5

Max(a, b) == IF a > b THEN a ELSE b
Min(a, b) == IF a < b THEN a ELSE b

\* A call either returns a value or raises an exception
Ok(v) == [ok |-> TRUE, val |-> v]
Raise(kind) == [ok |-> FALSE, val |-> kind]

(***************************************************************************)
(* numpy / os / pandas primitives used by the loader.                      *)
(***************************************************************************)
\* os.path.basename: the last component of the path
basename(p) == p[Len(p)]

\* os.path.exists(os.path.join(primary_feature_dir, name))
exists(dir, name) == name \in DOMAIN dir

\* np.zeros((n, d))
zeros(n, d) == [i \in 1 .. n |-> [j \in 1 .. d |-> 0]]

\* np.vstack((a, b))
vstack(a, b) == a \o b

\* feature_data[:n]
head(a, n) == SubSeq(a, 1, Min(n, Len(a)))

\* ndarray.flatten(): row-major concatenation of the rows
RECURSIVE FlattenFrom(_, _)
FlattenFrom(a, i) == IF i > Len(a) THEN << >> ELSE a[i] \o FlattenFrom(a, i + 1)

flatten(a) == FlattenFrom(a, 1)

\* pd.read_csv(label_info_path)
read_csv(files, path) ==
    IF path \in DOMAIN files THEN Ok(files[path]) ELSE Raise("FileNotFoundError")

\* a default column that is given to the first row only, the others getting 0
AddColumnFirst(df, col, val) ==
    [columns |-> df.columns \cup {col},
     rows |-> [i \in 1 .. Len(df.rows) |->
                 [c \in DOMAIN df.rows[i] \cup {col} |->
                     IF c = col THEN (IF i = 1 THEN val ELSE 0) ELSE df.rows[i][c]]]]

\* df[weight_column] = 1
AddColumn(df, col, val) ==
    [columns |-> df.columns \cup {col},
     rows |-> [i \in 1 .. Len(df.rows) |->
                 [c \in DOMAIN df.rows[i] \cup {col} |->
                     IF c = col THEN val ELSE df.rows[i][c]]]]

(***************************************************************************)
(* prepare_data.get_max_sequence_length                                    *)
(***************************************************************************)
\* a loop that stops at the first missing file instead of skipping it
RECURSIVE GetMaxLoopStops(_, _, _, _, _)
GetMaxLoopStops(rows, dir, feature_column, i, max_length) ==
    IF i > Len(rows) THEN Ok(max_length)
    ELSE IF feature_column \notin DOMAIN rows[i] THEN Raise("KeyError")
    ELSE LET feature_path == basename(rows[i][feature_column]) IN
         IF ~exists(dir, feature_path)
         THEN Ok(max_length)
         ELSE GetMaxLoopStops(rows, dir, feature_column, i + 1,
                              Max(max_length, Len(dir[feature_path])))

RECURSIVE GetMaxLoop(_, _, _, _, _)
GetMaxLoop(rows, dir, feature_column, i, max_length) ==
    IF i > Len(rows) THEN Ok(max_length)
    ELSE IF feature_column \notin DOMAIN rows[i] THEN Raise("KeyError")
    ELSE LET feature_path == basename(rows[i][feature_column]) IN
         IF ~exists(dir, feature_path)
         THEN GetMaxLoop(rows, dir, feature_column, i + 1, max_length)
         ELSE GetMaxLoop(rows, dir, feature_column, i + 1,
                         Max(max_length, Len(dir[feature_path])))

get_max_sequence_length(files, label_info_path, dir, feature_column) ==
    LET df == read_csv(files, label_info_path) IN
    IF ~df.ok THEN df
    ELSE GetMaxLoop(df.val.rows, dir, feature_column, 1, 0)

(***************************************************************************)
(* prepare_data.load_data                                                  *)
(***************************************************************************)
\* a normalisation that keeps the last rows and pads in front
FitLengthTail(feature_data, T) ==
    IF Len(feature_data) > T
    THEN SubSeq(feature_data, Len(feature_data) - T + 1, Len(feature_data))
    ELSE IF Len(feature_data) < T
         THEN vstack(zeros(T - Len(feature_data), FeatureDim), feature_data)
         ELSE feature_data

\* lines 47-52: truncate or zero-pad to target_length rows
FitLength(feature_data, T) ==
    IF Len(feature_data) > T THEN head(feature_data, T)
    ELSE IF Len(feature_data) < T
         THEN vstack(feature_data, zeros(T - Len(feature_data), FeatureDim))
         ELSE feature_data

\* a loop that appends the label and weight of a row before testing its file
RECURSIVE LoadLoopEager(_, _, _, _, _, _, _, _)
LoadLoopEager(rows, dir, feature_column, label_column, T, weight_column, i, acc) ==
    IF i > Len(rows) THEN Ok(acc)
    ELSE LET feature_path == basename(rows[i][feature_column]) IN
         LoadLoopEager(rows, dir, feature_column, label_column, T, weight_column,
                       i + 1,
                       [X |-> IF exists(dir, feature_path)
                              THEN Append(acc.X, flatten(FitLength(dir[feature_path], T)))
                              ELSE acc.X,
                        y |-> Append(acc.y, rows[i][label_column]),
                        sample_weights |->
                            Append(acc.sample_weights, rows[i][weight_column])])

RECURSIVE LoadLoop(_, _, _, _, _, _, _, _)
LoadLoop(rows, dir, feature_column, label_column, T, weight_column, i, acc) ==
    IF i > Len(rows) THEN Ok(acc)
    ELSE IF feature_column \notin DOMAIN rows[i] THEN Raise("KeyError")
    ELSE LET feature_path == basename(rows[i][feature_column]) IN
         IF ~exists(dir, feature_path)
         THEN LoadLoop(rows, dir, feature_column, label_column, T, weight_column,
                       i + 1, acc)
         ELSE IF label_column \notin DOMAIN rows[i] THEN Raise("KeyError")
         ELSE LoadLoop(rows, dir, feature_column, label_column, T, weight_column,
                       i + 1,
                       [X |-> Append(acc.X, flatten(FitLength(dir[feature_path], T))),
                        y |-> Append(acc.y, rows[i][label_column]),
                        sample_weights |->
                            Append(acc.sample_weights, rows[i][weight_column])])

load_data(files, label_info_path, dir, feature_column, label_column, T, weight_column) ==
    IF T = NoLength THEN Raise("ValueError")
    ELSE LET df == read_csv(files, label_info_path) IN
         IF ~df.ok THEN df
         ELSE LET df1 == IF weight_column \notin df.val.columns
                         THEN AddColumn(df.val, weight_column, 1)
                         ELSE df.val
              IN LoadLoop(df1.rows, dir, feature_column, label_column, T, weight_column,
                          1, [X |-> << >>, y |-> << >>, sample_weights |-> << >>])

(***************************************************************************)
(* sklearn.preprocessing.StandardScaler, in exact arithmetic.  A fraction  *)
(* is a pair <<numerator, denominator>> in lowest terms, denominator > 0.  *)
(* A fitted scaler is [mean_, var_], one fraction per feature; its scale_  *)
(* is sqrt(var_), taken as 1 where var_ = 0.  A scaled value z is a real   *)
(* number, kept as its sign and the fraction z * z; the matrices the       *)
(* load_*_data wrappers return are matrices of such reals, scaled or not.  *)
(***************************************************************************)
Abs(n) == IF n < 0 THEN -n ELSE n

RECURSIVE Gcd(_, _)
Gcd(a, b) == IF b = 0 THEN a ELSE Gcd(b, a % b)

Frac(n, d) == LET g == Gcd(Abs(n), d) IN << n \div g, d \div g >>

Sign(n) == IF n > 0 THEN 1 ELSE IF n < 0 THEN -1 ELSE 0

\* the number x as a real, and a matrix of numbers as a matrix of reals
Real(x) == [sgn |-> Sign(x), sq |-> Frac(x * x, 1)]
AsReal(X) == [i \in 1 .. Len(X) |-> [j \in 1 .. Len(X[i]) |-> Real(X[i][j])]]

RECURSIVE ColSum(_, _, _)
ColSum(X, j, i) == IF i > Len(X) THEN 0 ELSE X[i][j] + ColSum(X, j, i + 1)

RECURSIVE ColSumSq(_, _, _)
ColSumSq(X, j, i) == IF i > Len(X) THEN 0 ELSE X[i][j] * X[i][j] + ColSumSq(X, j, i + 1)

\* check_array: a 2-D array with at least one sample and one feature
ValidMatrix(X) == Len(X) > 0 /\ Len(X[1]) > 0

\* StandardScaler().fit(X): the fitted object
Fit(X) ==
    LET n == Len(X) IN
    Scaler([j \in 1 .. Len(X[1]) |-> Frac(ColSum(X, j, 1), n)],
           [j \in 1 .. Len(X[1]) |->
              Frac(n * ColSumSq(X, j, 1) - ColSum(X, j, 1) * ColSum(X, j, 1), n * n)])

\* (x - mean) / scale
ScaleValue(x, mean, var) ==
    LET dn == x * mean[2] - mean[1]
        dd == mean[2]
    IN [sgn |-> Sign(dn),
        sq  |-> IF var[1] = 0 THEN Frac(dn * dn, dd * dd)
                ELSE Frac(dn * dn * var[2], dd * dd * var[1])]

\* scaler.transform(X): the scaler itself is left as it is
Transform(s, X) ==
    IF ~ValidMatrix(X) \/ Len(X[1]) # Len(s.mean_) THEN Raise("ValueError")
    ELSE Ok([X |-> [i \in 1 .. Len(X) |->
                      [j \in 1 .. Len(X[i]) |-> ScaleValue(X[i][j], s.mean_[j], s.var_[j])]],
             scaler |-> s])

\* scaler.fit_transform(X): fits the scaler on X, then transforms X
FitTransform(X) ==
    IF ~ValidMatrix(X) THEN Raise("ValueError") ELSE Transform(Fit(X), X)

(***************************************************************************)
(* prepare_data.load_train_data / load_eval_data / load_test_data.  Each   *)
(* returns its tuple, and the state in which it leaves the scaler object   *)
(* it was handed (after).                                                  *)
(***************************************************************************)
load_train_data(files, label_info_path, dir, feature_column, label_column, T, weight_column, scalerArg) ==
    LET r == load_data(files, label_info_path, dir, feature_column, label_column, T, weight_column) IN
    IF ~r.ok THEN r
    ELSE IF scalerArg.none
    THEN LET ft == FitTransform(r.val.X) IN
         IF ~ft.ok THEN ft
         ELSE Ok([X_train |-> ft.val.X, y_train |-> r.val.y,
                  sample_weights |-> r.val.sample_weights,
                  scaler |-> ft.val.scaler, after |-> scalerArg])
    ELSE Ok([X_train |-> AsReal(r.val.X), y_train |-> r.val.y,
             sample_weights |-> r.val.sample_weights,
             scaler |-> scalerArg, after |-> scalerArg])

\* a wrapper that calls fit_transform where transform is meant
ApplyScalerRefit(scalerArg, X) ==
    IF ~scalerArg.none THEN FitTransform(X)
    ELSE Ok([X |-> AsReal(X), scaler |-> scalerArg])

\* lines 86-87 and 96-97: if scaler is not None: X = scaler.transform(X)
ApplyScaler(scalerArg, X) ==
    IF ~scalerArg.none THEN Transform(scalerArg, X)
    ELSE Ok([X |-> AsReal(X), scaler |-> scalerArg])

load_eval_data(files, label_info_path, dir, feature_column, label_column, T, scalerArg) ==
    LET r == load_data(files, label_info_path, dir, feature_column, label_column, T,
                       "example_weight") IN
    IF ~r.ok THEN r
    ELSE LET t == ApplyScaler(scalerArg, r.val.X) IN
         IF ~t.ok THEN t
         ELSE Ok([X_eval |-> t.val.X, y_eval |-> r.val.y, after |-> t.val.scaler])

load_test_data(files, label_info_path, dir, feature_column, label_column, T, scalerArg) ==
    LET r == load_data(files, label_info_path, dir, feature_column, label_column, T,
                       "example_weight") IN
    IF ~r.ok THEN r
    ELSE LET t == ApplyScaler(scalerArg, r.val.X) IN
         IF ~t.ok THEN t
         ELSE Ok([X_test |-> t.val.X, y_test |-> r.val.y, after |-> t.val.scaler])

(***************************************************************************)
(* RF_train_and_evaluate.py: the helpers of main.                          *)
(***************************************************************************)
RECURSIVE SortedSeq(_)
SortedSeq(S) ==
    IF S = {} THEN << >>
    ELSE LET m == CHOOSE x \in S : \A z \in S : x <= z
         IN << m >> \o SortedSeq(S \ {m})

\* np.unique(y): the distinct values, ascending
unique(y) == SortedSeq({y[i] : i \in 1 .. Len(y)})

Count(y, c) == Cardinality({i \in 1 .. Len(y) : y[i] = c})

\* compute_class_weight(class_weight='balanced', classes=classes, y=y):
\* n_samples / (n_classes * count), one weight per entry of classes, in its order
compute_class_weight(classes, y) ==
    [k \in 1 .. Len(classes) |-> Frac(Len(y), Len(classes) * Count(y, classes[k]))]

\* dict(enumerate(class_weights)): keys 0, 1, ... in the order of the list
dict_enumerate(l) == [k \in 0 .. (Len(l) - 1) |-> l[k + 1]]

\* lines 53-54
ClassWeightDict(y) == dict_enumerate(compute_class_weight(unique(y), y))

\* a threshold test that also takes a score equal to the threshold
ApplyThresholdGeq(scores, threshold) ==
    [i \in 1 .. Len(scores) |-> IF scores[i] >= threshold THEN 1 ELSE 0]

\* line 16: (y_scores > threshold).astype(int)
ApplyThreshold(scores, threshold) ==
    [i \in 1 .. Len(scores) |-> IF scores[i] > threshold THEN 1 ELSE 0]

\* sklearn's binary precision/recall/f1 refuse a multiclass target, and a
\* target of two labels without the positive label 1
BinaryTarget(y, pred) ==
    LET present == {y[i] : i \in 1 .. Len(y)} \cup {pred[i] : i \in 1 .. Len(pred)}
    IN Cardinality(present) <= 2 /\ (1 \in present \/ Cardinality(present) < 2)

\* lines 18-26: the metrics, each a pair <<numerator, denominator>>
Metrics(y, pred) ==
    LET n  == Len(y)
        ok == Cardinality({i \in 1 .. n : pred[i] = y[i]})
        tp == Cardinality({i \in 1 .. n : pred[i] = 1 /\ y[i] = 1})
        pp == Cardinality({i \in 1 .. n : pred[i] = 1})
        ap == Cardinality({i \in 1 .. n : y[i] = 1})
    IN [accuracy |-> << ok, n >>, precision |-> << tp, pp >>,
        recall |-> << tp, ap >>, f1 |-> << 2 * tp, pp + ap >>]

evaluate_model_with_threshold(scores, y, threshold) ==
    LET pred == ApplyThreshold(scores, threshold) IN
    IF ~BinaryTarget(y, pred) THEN Raise("ValueError") ELSE Ok(Metrics(y, pred))

(***************************************************************************)
(* The paths and columns the source names.                                 *)
(***************************************************************************)
LabelCsv == "data/metadata/label_downsampled.csv"
TrainCsv == "data/metadata/train_downsample.csv"
EvalCsv  == "data/metadata/eval_downsample.csv"
TestCsv  == "data/metadata/test_downsample.csv"
RocPng   == "data/visualization/roc_auc_curve_RD_DOWN.png"
ImportanceCsv == "data/visualization/feature_importance_downsampled.csv"
ModelFile == "models/baseline_model/best_rf_model.joblib"

(***************************************************************************)
(* The inputs: stored arrays, feature directories, manifests.              *)
(***************************************************************************)
BoundedSeq(S, n) == UNION {[1 .. k -> S] : k \in 0 .. n}

\* the array stored under a name: len rows of FeatureDim distinct non-zero numbers
FileBase(name) == IF name = "a.npy" THEN 1 ELSE 1 + MaxLen * FeatureDim

StoredArray(name, len) ==
    [i \in 1 .. len |-> [j \in 1 .. FeatureDim |-> FileBase(name) + (i - 1) * FeatureDim + (j - 1)]]

FeatureDirs ==
    UNION {[present -> 0 .. MaxLen] : present \in SUBSET FileNames}

\* the directories main is run on: a.npy is there and is not empty; b.npy is
\* missing, empty or of the greatest length
MainDirs ==
    {lens \in FeatureDirs :
        /\ "a.npy" \in DOMAIN lens /\ lens["a.npy"] > 0
        /\ "b.npy" \in DOMAIN lens => lens["b.npy"] \in {0, MaxLen}}

\* the directories the scaling wrappers are called on: both files are there
ScaleDirs ==
    {lens \in MainDirs : "b.npy" \in DOMAIN lens}

MkDir(lens) == [name \in DOMAIN lens |-> StoredArray(name, lens[name])]

Manifest(columns, rowset, n) ==
    {[columns |-> columns, rows |-> r] : r \in BoundedSeq(rowset, n)}

NoCall == [fn |-> "none", label_info_path |-> "", target_length |-> NoLength,
           scaler |-> NoScaler, threshold |-> 0]
NoModel == [fitted |-> FALSE, X |-> << >>, y |-> << >>, sample_weight |-> << >>,
            class_weight |-> << >>]

\* main's locals and outputs before main has run
MainIdle ==
    /\ X_train = << >> /\ y_train = << >> /\ sample_weights_train = << >>
    /\ scaler = NoScaler
    /\ X_eval = << >> /\ y_eval = << >>
    /\ class_weight_dict = << >>
    /\ baseline_model = NoModel
    /\ y_scores = << >> /\ y_eval_pred = << >>
    /\ disk = << >> /\ done = << >>

mainVars == << pc, target_length, X_train, y_train, sample_weights_train, scaler,
               X_eval, y_eval, class_weight_dict, baseline_model, y_scores,
               y_eval_pred, disk, done >>

(***************************************************************************)
(* A client of prepare_data calling get_max_sequence_length and load_data. *)
(***************************************************************************)
\* the weight of a row is chosen with its label, so that either tells the row
LoadRowsW == {[feature_file |-> p, class |-> c, example_weight |-> c + 1] :
                 p \in Paths, c \in Labels}
LoadRowsNoW == {[feature_file |-> p, class |-> c] : p \in Paths, c \in Labels}

LoadManifests ==
    Manifest({"feature_file", "class", "example_weight"}, LoadRowsW, MaxRows)
    \cup Manifest({"feature_file", "class"}, LoadRowsNoW, MaxRows)

InitLoad ==
    /\ \E lens \in FeatureDirs : fs = MkDir(lens)
    /\ \E m \in LoadManifests : csv = (LabelCsv :> m)
    /\ call = NoCall /\ ret = Ok(0) /\ held = NoScaler
    /\ pc = "client"
    /\ target_length = NoLength
    /\ MainIdle

CallGetMax ==
    /\ pc = "client"
    /\ call' = [NoCall EXCEPT !.fn = "get_max_sequence_length", !.label_info_path = LabelCsv]
    /\ ret' = get_max_sequence_length(csv, LabelCsv, fs, "feature_file")
    /\ UNCHANGED << fs, csv, held, mainVars >>

CallLoadData ==
    /\ pc = "client"
    /\ \E T \in TargetLengths \cup {NoLength} :
         /\ call' = [NoCall EXCEPT !.fn = "load_data", !.label_info_path = LabelCsv,
                                   !.target_length = T]
         /\ ret' = load_data(csv, LabelCsv, fs, "feature_file", "class", T, "example_weight")
    /\ UNCHANGED << fs, csv, held, mainVars >>

NextLoad == CallGetMax \/ CallLoadData

SpecLoad == InitLoad /\ [][NextLoad]_vars

(***************************************************************************)
(* A client of prepare_data calling load_train_data, load_eval_data and    *)
(* load_test_data with one target length, keeping the scaler it gets back. *)
(***************************************************************************)
\* the label of a row plays no part in scaling
ScaleRows == {[contextual_feature_file |-> p, class |-> 1] : p \in Paths}

ScaleManifest(n) == Manifest({"contextual_feature_file", "class"}, ScaleRows, n)

\* the test manifest: one row for each file
TestManifest ==
    [columns |-> {"contextual_feature_file", "class"},
     rows |-> << [contextual_feature_file |-> << "feats", "b.npy" >>, class |-> 1],
                 [contextual_feature_file |-> << "a.npy" >>, class |-> 1] >>]

InitScale ==
    /\ \E lens \in ScaleDirs : fs = MkDir(lens)
    /\ \E tr \in ScaleManifest(MaxScaleRows), ev \in ScaleManifest(MaxScaleRows) :
         csv = (TrainCsv :> tr) @@ (EvalCsv :> ev) @@ (TestCsv :> TestManifest)
    /\ call = NoCall /\ ret = Ok(0) /\ held = NoScaler
    /\ pc = "client"
    /\ target_length \in TargetLengths
    /\ MainIdle

clientFrame == << fs, csv, pc, target_length, X_train, y_train, sample_weights_train,
                  scaler, X_eval, y_eval, class_weight_dict, baseline_model, y_scores,
                  y_eval_pred, disk, done >>

CallLoadTrain ==
    /\ pc = "client"
    /\ \E arg \in {NoScaler, held} :
         LET r == load_train_data(csv, TrainCsv, fs, "contextual_feature_file", "class",
                                  target_length, "example_weight", arg)
         IN /\ call' = [NoCall EXCEPT !.fn = "load_train_data", !.label_info_path = TrainCsv,
                                      !.target_length = target_length, !.scaler = arg]
            /\ ret' = r
            /\ held' = IF r.ok THEN r.val.scaler ELSE held
    /\ UNCHANGED clientFrame

CallLoadEval ==
    /\ pc = "client"
    /\ \E arg \in {NoScaler, held} :
         LET r == load_eval_data(csv, EvalCsv, fs, "contextual_feature_file", "class",
                                 target_length, arg)
         IN /\ call' = [NoCall EXCEPT !.fn = "load_eval_data", !.label_info_path = EvalCsv,
                                      !.target_length = target_length, !.scaler = arg]
            /\ ret' = r
            /\ held' = IF r.ok /\ ~arg.none THEN r.val.after ELSE held
    /\ UNCHANGED clientFrame

CallLoadTest ==
    /\ pc = "client"
    /\ \E arg \in {NoScaler, held} :
         LET r == load_test_data(csv, TestCsv, fs, "contextual_feature_file", "class",
                                 target_length, arg)
         IN /\ call' = [NoCall EXCEPT !.fn = "load_test_data", !.label_info_path = TestCsv,
                                      !.target_length = target_length, !.scaler = arg]
            /\ ret' = r
            /\ held' = IF r.ok /\ ~arg.none THEN r.val.after ELSE held
    /\ UNCHANGED clientFrame

NextScale == CallLoadTrain \/ CallLoadEval \/ CallLoadTest

SpecScale == InitScale /\ [][NextScale]_vars

(***************************************************************************)
(* A client calling evaluate_model_with_threshold on a fitted model whose  *)
(* predict_proba may return any scores.                                    *)
(***************************************************************************)
InitEval ==
    /\ fs = << >> /\ csv = << >>
    /\ call = NoCall /\ ret = Ok(0) /\ held = NoScaler
    /\ pc = "client"
    /\ target_length = NoLength
    /\ X_train = << >> /\ y_train = << >> /\ sample_weights_train = << >>
    /\ scaler = NoScaler
    /\ X_eval = << >>
    /\ y_eval \in BoundedSeq(Labels, MaxEvalRows) \ {<< >>}
    /\ class_weight_dict = << >>
    /\ baseline_model = NoModel
    \* what the model's predict_proba answers for the samples
    /\ y_scores \in [1 .. Len(y_eval) -> Scores]
    /\ y_eval_pred = << >>
    /\ disk = << >> /\ done = << >>

CallEvaluate ==
    /\ pc = "client"
    /\ \E threshold \in Thresholds :
         /\ call' = [NoCall EXCEPT !.fn = "evaluate_model_with_threshold",
                                   !.threshold = threshold]
         /\ y_eval_pred' = ApplyThreshold(y_scores, threshold)
         /\ ret' = evaluate_model_with_threshold(y_scores, y_eval, threshold)
    /\ UNCHANGED << fs, csv, held, pc, target_length, X_train, y_train,
                    sample_weights_train, scaler, X_eval, y_eval, class_weight_dict,
                    baseline_model, y_scores, disk, done >>

NextEval == CallEvaluate

SpecEval == InitEval /\ [][NextEval]_vars

(***************************************************************************)
(* RF_train_and_evaluate.main: one run, step by step.  No step catches an  *)
(* exception, so a step that raises ends the run (pc = "failed").          *)
(***************************************************************************)
LabelRows == {[feature_file |-> p] : p \in Paths}
\* training rows: a.npy with label 0 or 1, b.npy with label 1 or 2
TrainRows ==
    {[contextual_feature_file |-> << "a.npy" >>, class |-> c] : c \in {0, 1}}
    \cup {[contextual_feature_file |-> << "feats", "b.npy" >>, class |-> c] : c \in {1, 2}}
EvalRows == {[contextual_feature_file |-> << "a.npy" >>, class |-> c] : c \in Labels}
\* what predict_proba answers in main: below, at and above the threshold
MainScores == {2, baseline_threshold, 6}

Init ==
    /\ \E lens \in MainDirs : fs = MkDir(lens)
    /\ \E lb \in Manifest({"feature_file"}, LabelRows, MaxMainRows),
          tr \in Manifest({"contextual_feature_file", "class"}, TrainRows, MaxMainRows),
          ev \in Manifest({"contextual_feature_file", "class"}, EvalRows, 1) :
         csv = (LabelCsv :> lb) @@ (TrainCsv :> tr) @@ (EvalCsv :> ev)
    /\ call = NoCall /\ ret = Ok(0) /\ held = NoScaler
    /\ pc = "target_length"
    /\ target_length = NoLength
    /\ MainIdle

\* the order of main's steps
MainOrder == << "target_length", "load_train", "load_eval", "class_weights", "fit",
                "report_train", "evaluate", "roc_plot", "importance_csv", "dump" >>

Advance(step, next) == pc' = next /\ done' = Append(done, step)
Abort == pc' = "failed" /\ done' = done

\* lines 31-35
TargetLength ==
    /\ pc = "target_length"
    /\ LET r == get_max_sequence_length(csv, LabelCsv, fs, "feature_file") IN
       IF r.ok THEN target_length' = r.val /\ Advance("target_length", "load_train")
       ELSE target_length' = target_length /\ Abort
    /\ UNCHANGED << fs, csv, call, ret, held, X_train, y_train, sample_weights_train,
                    scaler, X_eval, y_eval, class_weight_dict, baseline_model,
                    y_scores, y_eval_pred, disk >>

\* lines 38-42
LoadTrain ==
    /\ pc = "load_train"
    /\ LET r == load_train_data(csv, TrainCsv, fs, "contextual_feature_file", "class",
                                target_length, "example_weight", NoScaler) IN
       IF r.ok
       THEN /\ X_train' = r.val.X_train /\ y_train' = r.val.y_train
            /\ sample_weights_train' = r.val.sample_weights
            /\ scaler' = r.val.scaler
            /\ Advance("load_train", "load_eval")
       ELSE /\ UNCHANGED << X_train, y_train, sample_weights_train, scaler >>
            /\ Abort
    /\ UNCHANGED << fs, csv, call, ret, held, target_length, X_eval, y_eval,
                    class_weight_dict, baseline_model, y_scores, y_eval_pred, disk >>

\* lines 45-50
LoadEval ==
    /\ pc = "load_eval"
    /\ LET r == load_eval_data(csv, EvalCsv, fs, "contextual_feature_file", "class",
                               target_length, scaler) IN
       IF r.ok
       THEN /\ X_eval' = r.val.X_eval /\ y_eval' = r.val.y_eval
            /\ scaler' = r.val.after
            /\ Advance("load_eval", "class_weights")
       ELSE /\ UNCHANGED << X_eval, y_eval, scaler >>
            /\ Abort
    /\ UNCHANGED << fs, csv, call, ret, held, target_length, X_train, y_train,
                    sample_weights_train, class_weight_dict, baseline_model,
                    y_scores, y_eval_pred, disk >>

\* lines 53-54
ClassWeights ==
    /\ pc = "class_weights"
    /\ class_weight_dict' = ClassWeightDict(y_train)
    /\ Advance("class_weights", "fit")
    /\ UNCHANGED << fs, csv, call, ret, held, target_length, X_train, y_train,
                    sample_weights_train, scaler, X_eval, y_eval, baseline_model,
                    y_scores, y_eval_pred, disk >>

\* lines 58-61: the fitted forest is a function of what it was fitted on
FitModel ==
    /\ pc = "fit"
    /\ baseline_model' = [fitted |-> TRUE, X |-> X_train, y |-> y_train,
                          sample_weight |-> sample_weights_train,
                          class_weight |-> class_weight_dict]
    /\ Advance("fit", "report_train")
    /\ UNCHANGED << fs, csv, call, ret, held, target_length, X_train, y_train,
                    sample_weights_train, scaler, X_eval, y_eval, class_weight_dict,
                    y_scores, y_eval_pred, disk >>

\* lines 64-66: predict and print only
ReportTrain ==
    /\ pc = "report_train"
    /\ baseline_model.fitted
    /\ Advance("report_train", "evaluate")
    /\ UNCHANGED << fs, csv, call, ret, held, target_length, X_train, y_train,
                    sample_weights_train, scaler, X_eval, y_eval, class_weight_dict,
                    baseline_model, y_scores, y_eval_pred, disk >>

\* predict_proba(X)[:, 1]: the forest has one column per class it was fitted
\* on, so column 1 is there only if it saw two classes or more
HasColumnOne(model) == Cardinality({model.y[i] : i \in 1 .. Len(model.y)}) >= 2

\* lines 69-75
Evaluate ==
    /\ pc = "evaluate"
    /\ IF ~HasColumnOne(baseline_model)
       THEN UNCHANGED << y_scores, y_eval_pred >> /\ Abort
       ELSE \E sc \in [1 .. Len(X_eval) -> MainScores] :
              /\ y_scores' = sc
              /\ y_eval_pred' = ApplyThreshold(sc, baseline_threshold)
              /\ IF evaluate_model_with_threshold(sc, y_eval, baseline_threshold).ok
                 THEN Advance("evaluate", "roc_plot")
                 ELSE Abort
    /\ UNCHANGED << fs, csv, call, ret, held, target_length, X_train, y_train,
                    sample_weights_train, scaler, X_eval, y_eval, class_weight_dict,
                    baseline_model, disk >>

\* lines 78-96
RocPlot ==
    /\ pc = "roc_plot"
    /\ disk' = Append(disk, [path |-> RocPng, content |-> y_scores])
    /\ Advance("roc_plot", "importance_csv")
    /\ UNCHANGED << fs, csv, call, ret, held, target_length, X_train, y_train,
                    sample_weights_train, scaler, X_eval, y_eval, class_weight_dict,
                    baseline_model, y_scores, y_eval_pred >>

\* lines 99-109
ImportanceCsvStep ==
    /\ pc = "importance_csv"
    /\ disk' = Append(disk, [path |-> ImportanceCsv, content |-> << >>])
    /\ Advance("importance_csv", "dump")
    /\ UNCHANGED << fs, csv, call, ret, held, target_length, X_train, y_train,
                    sample_weights_train, scaler, X_eval, y_eval, class_weight_dict,
                    baseline_model, y_scores, y_eval_pred >>

\* a run that serializes the model before the plot and the CSV are written
DumpModelEarly ==
    /\ pc = "roc_plot"
    /\ disk' = Append(disk, [path |-> ModelFile, content |-> baseline_model])
    /\ Advance("dump", "done")
    /\ UNCHANGED << fs, csv, call, ret, held, target_length, X_train, y_train,
                    sample_weights_train, scaler, X_eval, y_eval, class_weight_dict,
                    baseline_model, y_scores, y_eval_pred >>

\* lines 112-113
DumpModel ==
    /\ pc = "dump"
    /\ disk' = Append(disk, [path |-> ModelFile, content |-> baseline_model])
    /\ Advance("dump", "done")
    /\ UNCHANGED << fs, csv, call, ret, held, target_length, X_train, y_train,
                    sample_weights_train, scaler, X_eval, y_eval, class_weight_dict,
                    baseline_model, y_scores, y_eval_pred >>

\* any library call of a step may raise (I/O, memory, ...): nothing catches it
StepRaises ==
    /\ pc \notin {"done", "failed", "client"}
    /\ Abort
    /\ UNCHANGED << fs, csv, call, ret, held, target_length, X_train, y_train,
                    sample_weights_train, scaler, X_eval, y_eval, class_weight_dict,
                    baseline_model, y_scores, y_eval_pred, disk >>

Next ==
    \/ TargetLength \/ LoadTrain \/ LoadEval \/ ClassWeights \/ FitModel
    \/ ReportTrain \/ Evaluate \/ RocPlot \/ ImportanceCsvStep \/ DumpModel
    \/ StepRaises

Spec == Init /\ [][Next]_vars

(***************************************************************************)
(* Properties of get_max_sequence_length and load_data (SpecLoad).         *)
(***************************************************************************)
\* the manifest rows whose feature file exists in the feature directory
Present(rows, column) ==
    {i \in 1 .. Len(rows) : rows[i][column][Len(rows[i][column])] \in DOMAIN fs}

\* the k-th smallest element of a set of numbers
Kth(S, k) == CHOOSE i \in S : Cardinality({z \in S : z < i}) = k - 1

\* the array stored for manifest row i
ArrayOf(rows, column, i) == fs[rows[i][column][Len(rows[i][column])]]

LoadReturned == call.fn = "load_data" /\ call.target_length # NoLength

\* C1: load_data brings every loaded array of L rows to exactly target_length
\* rows before flattening: rows 1..min(L,T) are the original rows in order and
\* the remaining T-L rows (when L < T) are zero rows appended after them.
C1_FitLength ==
    LoadReturned =>
        LET rows == csv[LabelCsv].rows
            P == Present(rows, "feature_file")
            T == call.target_length
        IN /\ ret.ok
           /\ Len(ret.val.X) = Cardinality(P)
           /\ \A k \in 1 .. Cardinality(P) :
                LET a == ArrayOf(rows, "feature_file", Kth(P, k))
                    v == ret.val.X[k]
                IN /\ Len(v) = T * FeatureDim
                   /\ \A r \in 1 .. T : \A j \in 1 .. FeatureDim :
                        v[(r - 1) * FeatureDim + j] = (IF r <= Len(a) THEN a[r][j] ELSE 0)

\* a result holding both a truncated sample (L > T >= 1) and a padded one (L < T)
C1_Witness ==
    /\ LoadReturned /\ ret.ok /\ call.target_length >= 1
    /\ LET rows == csv[LabelCsv].rows
           P == Present(rows, "feature_file")
       IN /\ Len(ret.val.X) = Cardinality(P)
          /\ \E k \in 1 .. Cardinality(P) :
                Len(ArrayOf(rows, "feature_file", Kth(P, k))) > call.target_length
          /\ \E k \in 1 .. Cardinality(P) :
                Len(ArrayOf(rows, "feature_file", Kth(P, k))) < call.target_length

\* C2: a row whose feature file does not exist is skipped without failing:
\* load_data returns three arrays of equal length, the number of rows whose
\* file exists, and entry k of each comes from the k-th such row in manifest
\* order, also for rows after a skipped one.
C2_SkipMissing ==
    LoadReturned =>
        LET rows == csv[LabelCsv].rows
            P == Present(rows, "feature_file")
        IN /\ ret.ok
           /\ Len(ret.val.X) = Cardinality(P)
           /\ Len(ret.val.y) = Cardinality(P)
           /\ Len(ret.val.sample_weights) = Cardinality(P)
           /\ \A k \in 1 .. Cardinality(P) :
                LET i == Kth(P, k)
                    a == ArrayOf(rows, "feature_file", i)
                IN /\ ret.val.y[k] = rows[i].class
                   /\ "example_weight" \in DOMAIN rows[i]
                        => ret.val.sample_weights[k] = rows[i].example_weight
                   /\ \A r \in 1 .. Min(Len(a), call.target_length) :
                        \A j \in 1 .. FeatureDim :
                           ret.val.X[k][(r - 1) * FeatureDim + j] = a[r][j]

\* a skipped row between two loaded rows of different files, labels and weights
C2_Witness ==
    /\ LoadReturned /\ ret.ok /\ call.target_length >= 1
    /\ LET rows == csv[LabelCsv].rows
           P == Present(rows, "feature_file")
       IN /\ Len(rows) = 3 /\ P = {1, 3}
          /\ "example_weight" \in DOMAIN rows[1]
          /\ rows[1].class # rows[3].class
          /\ rows[1].example_weight # rows[3].example_weight
          /\ Len(ret.val.y) = 2
          /\ ret.val.y[2] = rows[3].class

\* C7: get_max_sequence_length returns the largest first dimension among the
\* arrays of the rows whose feature file exists, and 0 when there is none.
C7_MaxLength ==
    call.fn = "get_max_sequence_length" =>
        LET rows == csv[LabelCsv].rows
            P == Present(rows, "feature_file")
            lens == {Len(ArrayOf(rows, "feature_file", i)) : i \in P}
        IN /\ ret.ok
           /\ P = {} => ret.val = 0
           /\ P # {} => ret.val \in lens /\ \A l \in lens : l <= ret.val

\* the first row's file is missing, the rows after it are loaded, and the
\* result is the positive length of their array
C7_Witness ==
    /\ call.fn = "get_max_sequence_length" /\ ret.ok
    /\ LET rows == csv[LabelCsv].rows
           P == Present(rows, "feature_file")
       IN /\ Len(rows) = 3 /\ P = {2, 3}
          /\ ret.val = Len(ArrayOf(rows, "feature_file", 3))
          /\ ret.val > 0

\* C8: without a weight column every returned weight is 1 and there is one per
\* loaded row; with the column, entry k is the weight of the k-th loaded row.
C8_Weights ==
    LoadReturned =>
        LET df == csv[LabelCsv]
            P == Present(df.rows, "feature_file")
            w == ret.val.sample_weights
        IN /\ ret.ok
           /\ Len(w) = Cardinality(P)
           /\ "example_weight" \notin df.columns => \A k \in 1 .. Len(w) : w[k] = 1
           /\ "example_weight" \in df.columns =>
                \A k \in 1 .. Len(w) : w[k] = df.rows[Kth(P, k)].example_weight

\* no weight column, two rows loaded and one skipped
C8_Witness ==
    /\ LoadReturned /\ ret.ok
    /\ LET df == csv[LabelCsv]
           P == Present(df.rows, "feature_file")
       IN /\ "example_weight" \notin df.columns
          /\ Cardinality(P) = 2 /\ Len(df.rows) = 3
          /\ ret.val.sample_weights = << 1, 1 >>

(***************************************************************************)
(* Properties of the scaling wrappers (SpecScale).                         *)
(***************************************************************************)
\* the unscaled matrix load_data yields for a manifest at the client's length
RawMatrix(path) ==
    load_data(csv, path, fs, "contextual_feature_file", "class", target_length,
              "example_weight").val.X

\* sc holds the mean and the variance of every column of the matrix X
FitOn(sc, X) ==
    /\ ~sc.none
    /\ Len(sc.mean_) = Len(X[1]) /\ Len(sc.var_) = Len(X[1])
    /\ \A j \in 1 .. Len(X[1]) :
         LET n == Len(X)
             sum == ColSum(X, j, 1)
             sumsq == ColSumSq(X, j, 1)
         IN /\ sc.mean_[j][1] * n = sum * sc.mean_[j][2]
            /\ sc.var_[j][1] * n * n = (n * sumsq - sum * sum) * sc.var_[j][2]

\* z is (x - mean) / std for the mean and variance sc holds for column j
ScaledBy(sc, j, x, z) ==
    LET mn == sc.mean_[j][1]
        md == sc.mean_[j][2]
        vn == sc.var_[j][1]
        vd == sc.var_[j][2]
        d  == x * md - mn
    IN /\ z.sgn = Sign(d)
       /\ IF vn = 0 THEN z.sq[1] * md * md = z.sq[2] * d * d
          ELSE z.sq[1] * vn * md * md = z.sq[2] * vd * d * d

\* Z is the matrix X transformed by sc, entry by entry
MatrixScaledBy(sc, X, Z) ==
    /\ Len(Z) = Len(X)
    /\ \A i \in 1 .. Len(X) :
         /\ Len(Z[i]) = Len(X[i])
         /\ \A j \in 1 .. Len(X[i]) : ScaledBy(sc, j, X[i][j], Z[i][j])

\* Z is the matrix X itself, unscaled
MatrixUnscaled(X, Z) ==
    /\ Len(Z) = Len(X)
    /\ \A i \in 1 .. Len(X) :
         /\ Len(Z[i]) = Len(X[i])
         /\ \A j \in 1 .. Len(X[i]) :
              Z[i][j].sgn = Sign(X[i][j]) /\ Z[i][j].sq = << X[i][j] * X[i][j], 1 >>

\* C5 (as claimed): every call of load_train_data that returns, whatever its
\* arguments, returns a scaler fit on the matrix it just loaded and that
\* matrix transformed by the scaler.
C5_AlwaysFitsAndScales ==
    (call.fn = "load_train_data" /\ ret.ok) =>
        /\ FitOn(ret.val.scaler, RawMatrix(TrainCsv))
        /\ MatrixScaledBy(ret.val.scaler, RawMatrix(TrainCsv), ret.val.X_train)

\* C6: load_eval_data and load_test_data leave the scaler they are given as it
\* was fit on the training matrix, return the loaded matrix transformed by that
\* train-fit scaler, and return it unscaled when no scaler is passed.
C6_ScalerNotRefit ==
    /\ ~held.none => FitOn(held, RawMatrix(TrainCsv))
    /\ (call.fn \in {"load_eval_data", "load_test_data"} /\ ret.ok) =>
         LET raw == RawMatrix(call.label_info_path)
             Z == IF call.fn = "load_eval_data" THEN ret.val.X_eval ELSE ret.val.X_test
         IN IF call.scaler.none THEN MatrixUnscaled(raw, Z)
            ELSE /\ FitOn(call.scaler, RawMatrix(TrainCsv))
                 /\ ret.val.after = call.scaler
                 /\ MatrixScaledBy(call.scaler, raw, Z)

\* load_eval_data has transformed, with a scaler whose columns vary, a matrix
\* other than the training matrix
C6_Witness ==
    /\ call.fn = "load_eval_data" /\ ret.ok /\ ~call.scaler.none
    /\ held = call.scaler
    /\ RawMatrix(EvalCsv) # RawMatrix(TrainCsv)
    /\ Len(RawMatrix(EvalCsv)) = 2
    /\ \A j \in 1 .. Len(held.var_) : held.var_[j][1] # 0

(***************************************************************************)
(* Properties of evaluate_model_with_threshold (SpecEval).                 *)
(***************************************************************************)
\* C3: for every threshold and every evaluated sample the prediction is 1
\* exactly when the positive-class probability is strictly greater than the
\* threshold; a score equal to the threshold is predicted 0.  The metrics
\* returned count these predictions.
C3_StrictThreshold ==
    call.fn = "evaluate_model_with_threshold" =>
        /\ Len(y_eval_pred) = Len(y_scores)
        /\ \A i \in 1 .. Len(y_scores) :
             /\ y_eval_pred[i] \in {0, 1}
             /\ y_eval_pred[i] = 1 <=> y_scores[i] > call.threshold
             /\ y_scores[i] = call.threshold => y_eval_pred[i] = 0
        /\ ret.ok =>
             /\ ret.val.precision[2] =
                    Cardinality({i \in 1 .. Len(y_scores) : y_scores[i] > call.threshold})
             /\ ret.val.accuracy[1] =
                    Cardinality({i \in 1 .. Len(y_scores) :
                                    (y_scores[i] > call.threshold) <=> (y_eval[i] = 1)})

\* one sample scores exactly the threshold, another above it, a third below
C3_Witness ==
    /\ call.fn = "evaluate_model_with_threshold" /\ ret.ok
    /\ call.threshold = DefaultThreshold
    /\ \E i, j, k \in 1 .. Len(y_scores) :
         /\ y_scores[i] = call.threshold /\ y_eval_pred[i] = 0
         /\ y_scores[j] > call.threshold /\ y_eval_pred[j] = 1
         /\ y_scores[k] < call.threshold /\ y_eval_pred[k] = 0

(***************************************************************************)
(* Properties of main (Spec).                                              *)
(***************************************************************************)
InDone(step) == \E i \in 1 .. Len(done) : done[i] = step

OnDisk(path) == \E i \in 1 .. Len(disk) : disk[i].path = path

\* C4 (as claimed): the target length main uses is computed from the manifest
\* and column that load_train_data loads, so it equals the maximum sequence
\* length among the training samples loaded.
C4_TargetFromTrainingSet ==
    InDone("load_train") =>
        LET rows == csv[TrainCsv].rows
            P == Present(rows, "contextual_feature_file")
            lens == {Len(ArrayOf(rows, "contextual_feature_file", i)) : i \in P}
        IN target_length \in lens /\ \A l \in lens : l <= target_length

\* C9 (as claimed): the class-weight mapping handed to the classifier gives
\* every label observed in the training set that label's own balanced weight
\* n_samples / (n_classes * count(label)).
C9_OwnBalancedWeight ==
    InDone("class_weights") =>
        LET observed == {y_train[i] : i \in 1 .. Len(y_train)} IN
        \A l \in observed :
            /\ l \in DOMAIN class_weight_dict
            /\ class_weight_dict[l][1] * Cardinality(observed) * Count(y_train, l)
                 = Len(y_train) * class_weight_dict[l][2]

C10_Inv ==
    /\ Len(done) <= Len(MainOrder)
    /\ \A i \in 1 .. Len(done) : done[i] = MainOrder[i]
    /\ OnDisk(ModelFile) =>
         /\ done = MainOrder
         /\ Len(disk) = 3
         /\ disk[1].path = RocPng /\ disk[2].path = ImportanceCsv
         /\ disk[3].path = ModelFile
         /\ disk[3].content = baseline_model
    /\ InDone("fit") =>
         baseline_model = [fitted |-> TRUE, X |-> X_train, y |-> y_train,
                           sample_weight |-> sample_weights_train,
                           class_weight |-> class_weight_dict]
    /\ pc = "failed" => ~OnDisk(ModelFile)

=============================================================================
